---- MODULE Spec2Model ----
(***************************************************************************)
(* State-machine model of the browser side of the HubSpot OAuth flow:      *)
(*   - the session identifier kept in localStorage,                        *)
(*   - the IntegrationSelector (main route) with its Connection Status,    *)
(*   - the HubspotCallback page (callback route) and handleHubspotCallback,*)
(*   - the useFetchHubspotItems hook and the ContactList that drives it.   *)
(* One browser tab shows one document at a time; a full-page navigation or *)
(* a reload discards the component state of the document it leaves.        *)
(***************************************************************************)
EXTENDS Integers, Sequences, FiniteSets, TLC

VARIABLES
    page,             \* document shown: "blank", "main", "callback", "external"
    query,            \* window.location.search of the document, as a record
    storage,          \* localStorage entry 'vectorshift_session_id'
    authUrl,          \* last URL the Auth Initiator navigated to
    apiBase,          \* process.env.REACT_APP_API_BASE_URL of the build
    requestUrl,       \* URL of the last request axios issued in this document
    requestParams,    \* params of that request
    sessionUserId,    \* IntegrationSelector: sessionUserId
    connectionStatus, \* IntegrationSelector: connectionStatus.hubspot
    isLoading,        \* IntegrationSelector: isLoading
    selError,         \* IntegrationSelector: error
    connectPc,        \* IntegrationSelector: position of handleHubspotConnect
    connects,         \* runs of handleHubspotConnect in this document (saturating)
    navs,             \* assignments of window.location.href by startHubspotAuth
    listMounted,      \* whether ContactList is mounted (its mount effect has run)
    hook,             \* useFetchHubspotItems state of ContactList
    inflight,         \* contacts requests of ContactList's hook awaiting a response
    whook,            \* useFetchHubspotItems state of ContactListWithErrorHandling
    cbStatus,         \* HubspotCallback: status
    cbMessage,        \* HubspotCallback: message
    cbError,          \* HubspotCallback: error
    cbPc,             \* HubspotCallback: position of processCallback
    exchangeCount,    \* exchange requests issued by this callback page instance
    returnedIds,      \* history: values returned by the session-id initialiser
    mounts,           \* history: runs of the session-id initialiser (saturating)
    exchanged,        \* history: an exchange request of this browser has succeeded
    lastOp,           \* history: the last hook / page operation and its input
    batch,            \* history: views the completions of the busy period yield alone
    overlapped        \* history: two calls were in flight together in the busy period

vars == << page, query, storage, authUrl, apiBase, requestUrl, requestParams,
           sessionUserId, connectionStatus, isLoading, selError,
           connectPc, connects, navs, listMounted, hook, inflight, whook,
           cbStatus, cbMessage, cbError, cbPc, exchangeCount,
           returnedIds, mounts, exchanged, lastOp, batch, overlapped >>

browserVars == << page, query, storage, authUrl, apiBase >>
selectorVars == << sessionUserId, connectionStatus, isLoading, selError,
                   connectPc, connects, navs, listMounted, whook >>
callbackVars == << cbStatus, cbMessage, cbError, cbPc, exchangeCount >>
sessionHistory == << returnedIds, mounts, exchanged >>

----------------------------------------------------------------------------
(* Bounds *)

\* contacts requests of one hook instance that may be in flight together
MaxInFlight == 2
\* identifiers Date.now() / Math.random() may produce
NumIds == 2
\* exchange requests counted per callback page instance
MaxExchange == 2
\* runs of the session-id initialiser that are counted
MaxMounts == 2
\* runs of handleHubspotConnect counted per document
MaxConnects == 2

----------------------------------------------------------------------------
(* JavaScript values *)

\* null / undefined / an absent query parameter
Null == "<null>"

\* truthiness of a string-or-null value
Truthy(v) == v # Null /\ v # ""

\* a || b
Or(a, b) == IF Truthy(a) THEN a ELSE b

\* String.prototype.includes
Includes(s, p) ==
    \E i \in 1..(Len(s) - Len(p) + 1) : SubSeq(s, i, i + Len(p) - 1) = p

----------------------------------------------------------------------------
(* Backend URLs *)

\* the value the README tells to put into .env.local
DocumentedBase == "http://localhost:8000/api"

\* a value that is no URL: the port is not a number
InvalidBase == "http://localhost:PORT"

\* values REACT_APP_API_BASE_URL may be built with (Null: not set)
BaseUrls == {Null, DocumentedBase, "https://backend.example.com", InvalidBase}

\* process.env.REACT_APP_API_BASE_URL || 'http://localhost:8000'
ApiBaseUrl(env) == Or(env, "http://localhost:8000")

\* the URL handleHubspotCallback requests
CallbackUrl(env) == ApiBaseUrl(env) \o "/api/integrations/hubspot/callback"

\* the URL fetchContacts requests
ContactsUrl(env) == ApiBaseUrl(env) \o "/api/integrations/hubspot/contacts"

\* no request issued
NoParams == [user_id |-> Null, code |-> Null, state |-> Null]

\* params of handleHubspotCallback's request
CallbackParams(q) == [user_id |-> Null, code |-> q.code, state |-> q.state]

\* params of fetchContacts' request
ContactsParams(userId) == [user_id |-> userId, code |-> Null, state |-> Null]

\* the userId of a hook instance: the argument, 'test_user' when none is given
HookUserId(arg) == IF arg = Null THEN "test_user" ELSE arg

TokenExpiredPhrase == "Token expired, please reconnect."

----------------------------------------------------------------------------
(* Contacts endpoint: what a request may settle with *)

c1 == [id |-> "1", firstname |-> "A", lastname |-> "B", email |-> "a@b.com"]
c2 == [id |-> "2", firstname |-> "C", lastname |-> "D", email |-> "c@d.com"]

\* response.data.data.contacts is undefined: a value of the kind of the field
\* (a sequence) that is no array of contacts
NoContacts == << [absent |-> TRUE] >>

\* kind "ok":       axios resolved; error / contacts are response.data.data.*
\* kind "response": axios rejected with error.response; error is data.data.error
\* kind "request":  axios rejected with error.request only (no response)
\* kind "other":    any other exception, carrying error.message
FetchResponses ==
    [kind : {"ok"}, error : {Null, "", TokenExpiredPhrase},
     contacts : {NoContacts, <<>>, <<c1>>, <<c1, c2>>},
     detail : {Null}, statusText : {"OK"}, message : {Null}]
    \cup
    [kind : {"response"}, error : {Null, "", "Rate limited"}, contacts : {NoContacts},
     detail : {Null, "", "Not authenticated"}, statusText : {"", "Unauthorized"},
     message : {"Request failed"}]
    \cup
    [kind : {"request"}, error : {Null}, contacts : {NoContacts}, detail : {Null},
     statusText : {Null}, message : {"Network Error"}]
    \cup
    [kind : {"other"}, error : {Null}, contacts : {NoContacts}, detail : {Null},
     statusText : {Null}, message : {"boom"}]

----------------------------------------------------------------------------
(* useFetchHubspotItems *)

InitialHook == [contacts |-> <<>>, loading |-> FALSE, error |-> Null]

\* mutant: the network branch reports the exception's own message
FetchErrorMessageRaw(r) ==
    IF r.kind = "response" THEN Or(r.error, Or(r.detail, r.statusText))
    ELSE r.message

\* mutant: the server detail is looked at before the nested error
FetchErrorMessageDetailFirst(r) ==
    IF r.kind = "response" THEN Or(r.detail, Or(r.error, r.statusText))
    ELSE IF r.kind = "request" THEN "Unable to connect to server"
    ELSE r.message

\* the catch block's errorMessage
FetchErrorMessage(r) ==
    IF r.kind = "response" THEN Or(r.error, Or(r.detail, r.statusText))
    ELSE IF r.kind = "request" THEN "Unable to connect to server"
    ELSE r.message

\* whether the try block reaches the embedded-error return
EmbeddedError(r) == r.kind = "ok" /\ Truthy(r.error)

\* response.data?.data?.contacts || []
ContactsData(r) == IF r.contacts = NoContacts THEN <<>> ELSE r.contacts

\* mutant: the call does not raise the loading flag
HookStartNotLoading(h) == [h EXCEPT !.error = Null]

\* mutant: the prior error is not cleared
HookStartKeepsError(h) == [h EXCEPT !.loading = TRUE]

\* fetchContacts up to its await: setLoading(true); setError(null)
HookStart(h) == [h EXCEPT !.loading = TRUE, !.error = Null]

\* mutant: the embedded-error branch does not clear the contacts
HookPathKeepsContacts(h, r) ==
    IF r.kind = "ok"
    THEN IF EmbeddedError(r)
         THEN [h EXCEPT !.error = r.error]
         ELSE [h EXCEPT !.contacts = ContactsData(r)]
    ELSE [h EXCEPT !.error = FetchErrorMessage(r), !.contacts = <<>>]

\* mutant: the catch block leaves the contacts fetched before in place
HookPathCatchKeepsContacts(h, r) ==
    IF r.kind = "ok"
    THEN IF EmbeddedError(r)
         THEN [h EXCEPT !.error = r.error, !.contacts = <<>>]
         ELSE [h EXCEPT !.contacts = ContactsData(r)]
    ELSE [h EXCEPT !.error = FetchErrorMessage(r)]

\* mutant: the success branch returns the contacts without storing them
HookPathReturnsOnly(h, r) ==
    IF r.kind = "ok"
    THEN IF EmbeddedError(r)
         THEN [h EXCEPT !.error = r.error, !.contacts = <<>>]
         ELSE h
    ELSE [h EXCEPT !.error = FetchErrorMessage(r), !.contacts = <<>>]

\* the state writes of the try / catch path taken after the await
HookPath(h, r) ==
    IF r.kind = "ok"
    THEN IF EmbeddedError(r)
         THEN [h EXCEPT !.error = r.error, !.contacts = <<>>]
         ELSE [h EXCEPT !.contacts = ContactsData(r)]
    ELSE [h EXCEPT !.error = FetchErrorMessage(r), !.contacts = <<>>]

\* mutant: setLoading(false) only at the end of the try block's last path
HookFinallyMissing(h) == h

\* the finally block: setLoading(false)
HookFinally(h) == [h EXCEPT !.loading = FALSE]

\* fetchContacts from the await to its end
HookSettle(h, r) == HookFinally(HookPath(h, r))

\* how the promise returned by fetchContacts settles
FetchOutcome(r) ==
    [settled |-> "resolved",
     value |-> IF r.kind = "ok" /\ ~EmbeddedError(r) THEN ContactsData(r) ELSE <<>>]

\* what ContactList renders for a hook state
View(h) ==
    IF h.loading THEN [view |-> "loading", error |-> Null, contacts |-> <<>>]
    ELSE IF Truthy(h.error) THEN [view |-> "error", error |-> h.error, contacts |-> <<>>]
    ELSE IF h.contacts = <<>> THEN [view |-> "empty", error |-> Null, contacts |-> <<>>]
    ELSE [view |-> "list", error |-> Null, contacts |-> h.contacts]

\* the view one call alone ends in
AloneView(r) == View(HookSettle(HookStart(InitialHook), r))

NoOp == [op |-> "none", resp |-> Null, outcome |-> Null]

\* mutant: a call is answered from the contacts fetched before
StartFetchCached ==
    /\ inflight < MaxInFlight
    /\ IF hook.contacts # <<>>
       THEN UNCHANGED << hook, inflight, requestUrl, requestParams >>
       ELSE /\ hook' = HookStart(hook)
            /\ inflight' = inflight + 1
            /\ requestUrl' = ContactsUrl(apiBase)
            /\ requestParams' = ContactsParams(HookUserId(sessionUserId))
    /\ overlapped' = IF inflight = 0 THEN FALSE ELSE TRUE
    /\ batch' = IF inflight = 0 THEN {} ELSE batch
    /\ lastOp' = [op |-> "start", resp |-> Null, outcome |-> Null]

\* a call of fetchContacts on ContactList's hook instance
StartFetch ==
    /\ inflight < MaxInFlight
    /\ hook' = HookStart(hook)
    /\ inflight' = inflight + 1
    /\ overlapped' = IF inflight = 0 THEN FALSE ELSE TRUE
    /\ batch' = IF inflight = 0 THEN {} ELSE batch
    /\ requestUrl' = ContactsUrl(apiBase)
    /\ requestParams' = ContactsParams(HookUserId(sessionUserId))
    /\ lastOp' = [op |-> "start", resp |-> Null, outcome |-> Null]

\* one in-flight contacts request settles with r
SettleFetch(r) ==
    /\ inflight > 0
    /\ hook' = HookSettle(hook, r)
    /\ inflight' = inflight - 1
    /\ batch' = batch \cup {AloneView(r)}
    /\ lastOp' = [op |-> "settle", resp |-> r, outcome |-> FetchOutcome(r)]
    /\ UNCHANGED << overlapped, requestUrl, requestParams >>

----------------------------------------------------------------------------
(* The hook instance on its own, called by an arbitrary caller *)

FetchContactsCall ==
    /\ StartFetch
    /\ UNCHANGED << browserVars, selectorVars, callbackVars, sessionHistory >>

FetchContactsSettle ==
    /\ \E r \in FetchResponses : SettleFetch(r)
    /\ UNCHANGED << browserVars, selectorVars, callbackVars, sessionHistory >>

----------------------------------------------------------------------------
(* Browser: location and localStorage *)

EmptyQuery ==
    [code |-> Null, state |-> Null, error |-> Null, error_description |-> Null,
     oauth_success |-> Null, oauth_error |-> Null]

\* query strings the main route may be loaded with
MainQueries ==
    [code : {Null}, state : {Null}, error : {Null}, error_description : {Null},
     oauth_success : {Null, "true", "1"},
     oauth_error : {Null, "", "authorization_denied", "callback_failed",
                    "server_error"}]

\* query strings the callback route may be loaded with
CallbackQueries ==
    [code : {Null, "", "abc"}, state : {Null, "user_1", "other"},
     error : {Null, "", "access_denied"},
     error_description : {Null, "", "User denied access"},
     oauth_success : {Null}, oauth_error : {Null}]

\* 'user_' + Date.now() + '_' + Math.random().toString(36).substr(2, 9)
IdPool == {"user_" \o ToString(i) : i \in 1..NumIds}

----------------------------------------------------------------------------
(* IntegrationSelector: session identifier *)

\* mutant: a new identifier is generated on every initialisation
SessionIdInitAlwaysFresh(stored, fresh) == fresh

\* the value the useState initialiser returns
SessionIdInit(stored, fresh) == IF ~Truthy(stored) THEN fresh ELSE stored

\* the localStorage entry after the initialiser ran
StorageAfterInit(stored, fresh) == IF ~Truthy(stored) THEN fresh ELSE stored

----------------------------------------------------------------------------
(* IntegrationSelector: on-mount effect *)

OAuthErrorMessage(oauthError) ==
    IF oauthError = "authorization_denied"
    THEN "You denied authorization to access HubSpot. Please try again if you want to connect."
    ELSE IF oauthError = "callback_failed"
    THEN "OAuth callback processing failed. Please try connecting again."
    ELSE "OAuth authentication failed"

\* mutant: the error indicator is looked at before the success indicator
MountStatusErrorFirst(q) ==
    IF Truthy(q.oauth_error) THEN "error"
    ELSE IF q.oauth_success = "true" THEN "connected"
    ELSE "disconnected"

MountStatus(q) ==
    IF q.oauth_success = "true" THEN "connected"
    ELSE IF Truthy(q.oauth_error) THEN "error"
    ELSE "disconnected"

\* mutant: only the two known codes set a message
MountErrorKnownCodesOnly(q) ==
    IF q.oauth_success = "true" THEN Null
    ELSE IF q.oauth_error \in {"authorization_denied", "callback_failed"}
    THEN OAuthErrorMessage(q.oauth_error)
    ELSE Null

MountError(q) ==
    IF q.oauth_success = "true" THEN Null
    ELSE IF Truthy(q.oauth_error) THEN OAuthErrorMessage(q.oauth_error)
    ELSE Null

\* mutant: the success branch leaves the query string in place
MountQueryKeepsSuccess(q) ==
    IF q.oauth_success # "true" /\ Truthy(q.oauth_error) THEN EmptyQuery ELSE q

\* window.history.replaceState(..., window.location.pathname) in both branches
MountQuery(q) ==
    IF q.oauth_success = "true" \/ Truthy(q.oauth_error) THEN EmptyQuery ELSE q

----------------------------------------------------------------------------
(* ContactListWithErrorHandling and ContactList *)

\* the wrapper's effect: onTokenExpired() when its own hook's error has the phrase
TokenExpired(werror) == Truthy(werror) /\ Includes(werror, TokenExpiredPhrase)

\* the Connection Status after the wrapper's effect ran
WrapperEffect(status, werror) ==
    IF status = "connected" /\ TokenExpired(werror) THEN "disconnected" ELSE status

\* what ContactListWithErrorHandling renders: the "Session Expired" panel
\* when its own hook's error has the phrase, else ContactList with its view
WrapperView(werror, h) ==
    IF TokenExpired(werror) THEN "session_expired" ELSE View(h).view

\* ContactList mounts: its effect calls fetchContacts()
MountContactList ==
    /\ listMounted' = TRUE
    /\ whook' = InitialHook
    /\ hook' = HookStart(InitialHook)
    /\ inflight' = 1
    /\ batch' = {}
    /\ overlapped' = FALSE

\* ContactList is not rendered: its state and pending completions are dropped
NoContactList ==
    /\ listMounted' = FALSE
    /\ whook' = InitialHook
    /\ hook' = InitialHook
    /\ inflight' = 0
    /\ batch' = {}
    /\ overlapped' = FALSE

\* a document without HubspotCallback
NoCallback ==
    /\ cbStatus' = "processing"
    /\ cbMessage' = "Processing HubSpot connection..."
    /\ cbError' = Null
    /\ cbPc' = "unmounted"
    /\ exchangeCount' = 0

\* a document without IntegrationSelector
NoSelector ==
    /\ sessionUserId' = Null
    /\ connectionStatus' = "disconnected"
    /\ isLoading' = FALSE
    /\ selError' = Null
    /\ connectPc' = "idle"
    /\ connects' = 0
    /\ navs' = 0
    /\ NoContactList

----------------------------------------------------------------------------
(* Main route *)

\* the main route loads with query q: IntegrationSelector mounts, its state
\* initialisers and its on-mount effect run, and its children render;
\* origin tells what caused the load
MountMain(q, fresh, origin) ==
    /\ page' = "main"
    /\ authUrl' = Null
    /\ sessionUserId' = SessionIdInit(storage, fresh)
    /\ storage' = StorageAfterInit(storage, fresh)
    /\ returnedIds' = returnedIds \cup {SessionIdInit(storage, fresh)}
    /\ mounts' = IF mounts < MaxMounts THEN mounts + 1 ELSE mounts
    /\ UNCHANGED exchanged
    /\ connectionStatus' = MountStatus(q)
    /\ selError' = MountError(q)
    /\ isLoading' = FALSE
    /\ connectPc' = "idle"
    /\ connects' = 0
    /\ navs' = 0
    /\ query' = MountQuery(q)
    /\ IF MountStatus(q) = "connected" THEN MountContactList ELSE NoContactList
    /\ requestUrl' = IF MountStatus(q) = "connected" THEN ContactsUrl(apiBase) ELSE Null
    /\ requestParams' = IF MountStatus(q) = "connected"
                        THEN ContactsParams(HookUserId(SessionIdInit(storage, fresh)))
                        ELSE NoParams
    /\ NoCallback
    /\ lastOp' = [op |-> "mount", resp |-> q, outcome |-> origin]
    /\ UNCHANGED apiBase

\* the user opens the main route with some query string
LoadMain ==
    /\ connectPc = "idle"
    /\ \E q \in MainQueries, fresh \in IdPool : MountMain(q, fresh, "load")

\* a string holding a lone surrogate, on which encodeURIComponent throws
MalformedId == "user_<lone surrogate>"

\* encodeURIComponent of one character: A-Z a-z 0-9 - _ . ! ~ * ' ( ) are
\* kept, any other character is percent-encoded
EncodeChar(ch) ==
    CASE ch = " " -> "%20"
      [] ch = "&" -> "%26"
      [] ch = "=" -> "%3D"
      [] ch = "?" -> "%3F"
      [] ch = "/" -> "%2F"
      [] ch = "<" -> "%3C"
      [] ch = ">" -> "%3E"
      [] OTHER -> ch

RECURSIVE EncodeURIComponent(_)
EncodeURIComponent(str) ==
    IF Len(str) = 0 THEN ""
    ELSE EncodeChar(SubSeq(str, 1, 1)) \o EncodeURIComponent(SubSeq(str, 2, Len(str)))

\* the URL startHubspotAuth builds
AuthUrl(env, userId) ==
    ApiBaseUrl(env) \o "/api/integrations/hubspot/authorize?user_id="
                    \o EncodeURIComponent(userId)

\* startHubspotAuth throws: encodeURIComponent raises URIError, or the
\* location.href setter raises SyntaxError on a string that is no URL
StartAuthThrows(env, userId) == userId = MalformedId \/ env = InvalidBase

\* error.message of what startHubspotAuth caught
StartAuthCause(env, userId) ==
    IF userId = MalformedId THEN "URI malformed"
    ELSE "Failed to set the 'href' property on 'Location': '"
         \o AuthUrl(env, userId) \o "' is not a valid URL."

\* the message of the Error startHubspotAuth rethrows
StartAuthError(env, userId) ==
    "OAuth initialization failed: " \o StartAuthCause(env, userId)

\* mutant: the connect action reports the connection as made at once
HandleHubspotConnectShowsConnected ==
    /\ connectionStatus' = "connected"
    /\ isLoading' = FALSE
    /\ selError' = Null
    /\ connects' = IF connects < MaxConnects THEN connects + 1 ELSE connects
    /\ connectPc' = "idle"
    /\ MountContactList
    /\ requestUrl' = ContactsUrl(apiBase)
    /\ requestParams' = ContactsParams(HookUserId(sessionUserId))
    /\ lastOp' = [op |-> "connect", resp |-> Null, outcome |-> Null]
    /\ UNCHANGED << page, query, storage, authUrl, navs, apiBase, sessionUserId,
                    callbackVars, sessionHistory >>

\* mutant: startHubspotAuth is called without the session identifier, so
\* that its default userId 'test_user' is used
HandleHubspotConnectDefaultUser ==
    /\ connectionStatus' = "connecting"
    /\ isLoading' = TRUE
    /\ selError' = Null
    /\ connects' = IF connects < MaxConnects THEN connects + 1 ELSE connects
    /\ IF StartAuthThrows(apiBase, "test_user")
       THEN /\ connectPc' = "catch"
            /\ UNCHANGED << authUrl, navs >>
       ELSE /\ connectPc' = "idle"
            /\ authUrl' = AuthUrl(apiBase, "test_user")
            /\ navs' = IF navs < MaxConnects THEN navs + 1 ELSE navs
    /\ NoContactList
    /\ lastOp' = [op |-> "connect", resp |-> Null, outcome |-> Null]
    /\ UNCHANGED << page, query, storage, apiBase, requestUrl, requestParams, sessionUserId,
                    callbackVars, sessionHistory >>

\* mutant: a throwing startHubspotAuth is handled before the status is set
HandleHubspotConnectFailsAtOnce ==
    /\ connects' = IF connects < MaxConnects THEN connects + 1 ELSE connects
    /\ connectPc' = "idle"
    /\ IF StartAuthThrows(apiBase, sessionUserId)
       THEN /\ connectionStatus' = "error"
            /\ isLoading' = FALSE
            /\ selError' = StartAuthError(apiBase, sessionUserId)
            /\ UNCHANGED << authUrl, navs >>
       ELSE /\ connectionStatus' = "connecting"
            /\ isLoading' = TRUE
            /\ selError' = Null
            /\ authUrl' = AuthUrl(apiBase, sessionUserId)
            /\ navs' = IF navs < MaxConnects THEN navs + 1 ELSE navs
    /\ NoContactList
    /\ lastOp' = [op |-> "connect", resp |-> Null, outcome |-> Null]
    /\ UNCHANGED << page, query, storage, apiBase, requestUrl, requestParams, sessionUserId,
                    callbackVars, sessionHistory >>

\* handleHubspotConnect up to the end of its try block: the three state
\* updates, then startHubspotAuth, which navigates or throws
HandleHubspotConnect ==
    /\ connectionStatus' = "connecting"
    /\ isLoading' = TRUE
    /\ selError' = Null
    /\ connects' = IF connects < MaxConnects THEN connects + 1 ELSE connects
    /\ IF StartAuthThrows(apiBase, sessionUserId)
       THEN /\ connectPc' = "catch"
            /\ UNCHANGED << authUrl, navs >>
       ELSE /\ connectPc' = "idle"
            /\ authUrl' = AuthUrl(apiBase, sessionUserId)
            /\ navs' = IF navs < MaxConnects THEN navs + 1 ELSE navs
    /\ NoContactList
    /\ lastOp' = [op |-> "connect", resp |-> Null, outcome |-> Null]
    /\ UNCHANGED << page, query, storage, apiBase, requestUrl, requestParams, sessionUserId,
                    callbackVars, sessionHistory >>

\* mutant: the catch block leaves the loading flag set
ConnectCatchKeepsLoading ==
    /\ page = "main"
    /\ connectPc = "catch"
    /\ connectionStatus' = "error"
    /\ selError' = StartAuthError(apiBase, sessionUserId)
    /\ connectPc' = "idle"
    /\ lastOp' = [op |-> "catch", resp |-> Null, outcome |-> Null]
    /\ UNCHANGED << browserVars, requestUrl, requestParams, sessionUserId, isLoading, connects,
                    navs, listMounted, whook, hook, inflight, batch, overlapped,
                    callbackVars, sessionHistory >>

\* the catch block of handleHubspotConnect; it runs as a microtask, before
\* any other event of the document
ConnectCatch ==
    /\ page = "main"
    /\ connectPc = "catch"
    /\ connectionStatus' = "error"
    /\ selError' = StartAuthError(apiBase, sessionUserId)
    /\ isLoading' = FALSE
    /\ connectPc' = "idle"
    /\ lastOp' = [op |-> "catch", resp |-> Null, outcome |-> Null]
    /\ UNCHANGED << browserVars, requestUrl, requestParams, sessionUserId, connects, navs,
                    listMounted, whook, hook, inflight, batch, overlapped,
                    callbackVars, sessionHistory >>

\* the integration card's onClick
ClickCard ==
    /\ page = "main"
    /\ connectPc = "idle"
    /\ HandleHubspotConnect

\* the card's button onClick (disabled per getButtonDisabled)
ClickButton ==
    /\ page = "main"
    /\ connectPc = "idle"
    /\ ~(connectionStatus = "connecting" \/ isLoading)
    /\ HandleHubspotConnect

\* the navigation started by window.location.href = authUrl commits
LeaveForAuth ==
    /\ page = "main"
    /\ connectPc = "idle"
    /\ authUrl # Null
    /\ page' = "external"
    /\ query' = EmptyQuery
    /\ requestUrl' = Null
    /\ requestParams' = NoParams
    /\ NoSelector
    /\ NoCallback
    /\ lastOp' = [op |-> "leave", resp |-> Null, outcome |-> Null]
    /\ UNCHANGED << storage, authUrl, apiBase, sessionHistory >>

\* "Try Again" / "Refresh" of ContactList, shown in every view but the spinner
Refetch ==
    /\ page = "main"
    /\ listMounted
    /\ ~hook.loading
    /\ StartFetch
    /\ UNCHANGED << browserVars, selectorVars, callbackVars, sessionHistory >>

\* a contacts request of the mounted ContactList settles; the wrapper's effect
\* reads the wrapper's own hook instance
ContactsSettle ==
    /\ page = "main"
    /\ listMounted
    /\ \E r \in FetchResponses :
        IF WrapperEffect(connectionStatus, whook.error) = "connected"
        THEN /\ SettleFetch(r)
             /\ UNCHANGED << connectionStatus, listMounted, whook >>
        ELSE /\ inflight > 0
             /\ connectionStatus' = WrapperEffect(connectionStatus, whook.error)
             /\ NoContactList
             /\ lastOp' = [op |-> "settle", resp |-> r, outcome |-> FetchOutcome(r)]
    /\ UNCHANGED << browserVars, requestUrl, requestParams, sessionUserId, isLoading, selError,
                    connectPc, connects, navs, callbackVars, sessionHistory >>

\* the browser reloads the main route (window.location.reload())
ReloadMain ==
    /\ page = "main"
    /\ connectPc = "idle"
    /\ \E fresh \in IdPool : MountMain(query, fresh, "reload")

----------------------------------------------------------------------------
(* Callback route: HubspotCallback and handleHubspotCallback *)

\* what the exchange request may settle with
\* kind "ok":       axios resolved (2xx)
\* kind "response": axios rejected with error.response (data.detail, statusText)
\* kind "request":  axios rejected with error.request only (no response)
\* kind "other":    any other exception, carrying error.message
ExchangeResponses ==
    [kind : {"ok"}, detail : {Null}, statusText : {"OK"}, message : {Null}]
    \cup
    [kind : {"response"}, detail : {Null, "", "bad code"},
     statusText : {"", "Unauthorized"}, message : {"Request failed"}]
    \cup
    [kind : {"request"}, detail : {Null}, statusText : {Null},
     message : {"Network Error"}]
    \cup
    [kind : {"other"}, detail : {Null}, statusText : {Null}, message : {"boom"}]

\* mutant: the HTTP status text takes precedence over the server detail
CallbackRejectionStatusFirst(r) ==
    IF r.kind = "response"
    THEN "OAuth callback failed: " \o Or(r.statusText, r.detail)
    ELSE IF r.kind = "request" THEN "Failed to connect to callback server"
    ELSE "OAuth callback processing failed: " \o r.message

\* the message of the Error handleHubspotCallback throws from its catch block
CallbackRejection(r) ==
    IF r.kind = "response"
    THEN "OAuth callback failed: " \o Or(r.detail, r.statusText)
    ELSE IF r.kind = "request" THEN "Failed to connect to callback server"
    ELSE "OAuth callback processing failed: " \o r.message

\* processCallback's catch: setError(err.message || 'Unknown error occurred')
CallbackCatchError(r) == Or(CallbackRejection(r), "Unknown error occurred")

\* mutant: the code is looked at before the error parameter
CallbackBranchCodeFirst(q) ==
    IF Truthy(q.code) THEN "exchange"
    ELSE IF Truthy(q.error) THEN "provider_error"
    ELSE "missing_code"

\* the branch processCallback takes: if (error) ... if (!code) ... else exchange
CallbackBranch(q) ==
    IF Truthy(q.error) THEN "provider_error"
    ELSE IF ~Truthy(q.code) THEN "missing_code"
    ELSE "exchange"

\* setError(errorDescription || error)
ProviderError(q) == Or(q.error_description, q.error)

\* mutant: the provider-error branch sets the error state but does not
\* return, so that a URL with error and code goes on to the exchange
MountCallbackNoReturn(q, origin) ==
    /\ page' = "callback"
    /\ query' = q
    /\ authUrl' = Null
    /\ NoSelector
    /\ IF CallbackBranch(q) = "provider_error"
       THEN /\ cbStatus' = "error"
            /\ cbMessage' = "HubSpot authorization failed"
            /\ cbError' = ProviderError(q)
            /\ cbPc' = IF Truthy(q.code) THEN "awaiting" ELSE "done"
            /\ exchangeCount' = IF Truthy(q.code) THEN 1 ELSE 0
       ELSE IF CallbackBranch(q) = "missing_code"
       THEN /\ cbStatus' = "error"
            /\ cbMessage' = "No authorization code received"
            /\ cbError' = "Missing authorization code in callback URL"
            /\ cbPc' = "done"
            /\ exchangeCount' = 0
       ELSE /\ cbStatus' = "processing"
            /\ cbMessage' = "Processing HubSpot connection..."
            /\ cbError' = Null
            /\ cbPc' = "awaiting"
            /\ exchangeCount' = 1
    /\ requestUrl' = IF Truthy(q.code) THEN CallbackUrl(apiBase) ELSE Null
    /\ requestParams' = IF Truthy(q.code) THEN CallbackParams(q) ELSE NoParams
    /\ lastOp' = [op |-> "callback", resp |-> q, outcome |-> origin]
    /\ UNCHANGED << storage, apiBase, sessionHistory >>

\* the callback route loads with query q: HubspotCallback mounts and its
\* on-mount effect runs processCallback up to a return or to the await; origin
\* tells a load of a URL ("load") from a reload of the page shown ("reload")
MountCallback(q, origin) ==
    /\ page' = "callback"
    /\ query' = q
    /\ authUrl' = Null
    /\ NoSelector
    /\ IF CallbackBranch(q) = "provider_error"
       THEN /\ cbStatus' = "error"
            /\ cbMessage' = "HubSpot authorization failed"
            /\ cbError' = ProviderError(q)
            /\ cbPc' = "done"
            /\ exchangeCount' = 0
       ELSE IF CallbackBranch(q) = "missing_code"
       THEN /\ cbStatus' = "error"
            /\ cbMessage' = "No authorization code received"
            /\ cbError' = "Missing authorization code in callback URL"
            /\ cbPc' = "done"
            /\ exchangeCount' = 0
       ELSE /\ cbStatus' = "processing"
            /\ cbMessage' = "Processing HubSpot connection..."
            /\ cbError' = Null
            /\ cbPc' = "awaiting"
            /\ exchangeCount' = 1
    /\ requestUrl' = IF CallbackBranch(q) = "exchange" THEN CallbackUrl(apiBase) ELSE Null
    /\ requestParams' = IF CallbackBranch(q) = "exchange" THEN CallbackParams(q) ELSE NoParams
    /\ lastOp' = [op |-> "callback", resp |-> q, outcome |-> origin]
    /\ UNCHANGED << storage, apiBase, sessionHistory >>

\* the browser is sent to the callback route with some query string
LoadCallback ==
    /\ connectPc = "idle"
    /\ \E q \in CallbackQueries : MountCallback(q, "load")

\* mutant: a failed exchange is issued again
ExchangeFailedRetry(r) ==
    IF exchangeCount < MaxExchange
    THEN /\ exchangeCount' = exchangeCount + 1
         /\ UNCHANGED << cbStatus, cbMessage, cbError, cbPc, query >>
    ELSE /\ cbStatus' = "error"
         /\ cbMessage' = "Failed to connect HubSpot"
         /\ cbError' = Or(CallbackRejection(r), "Unknown error occurred")
         /\ cbPc' = "done"
         /\ UNCHANGED << query, exchangeCount >>

\* mutant: the catch block strips the query parameters as the success path does
ExchangeFailedStripsQuery(r) ==
    /\ cbStatus' = "error"
    /\ cbMessage' = "Failed to connect HubSpot"
    /\ cbError' = CallbackCatchError(r)
    /\ cbPc' = "done"
    /\ query' = EmptyQuery
    /\ UNCHANGED exchangeCount

\* processCallback after the exchange failed: the catch block, no further request
ExchangeFailed(r) ==
    /\ cbStatus' = "error"
    /\ cbMessage' = "Failed to connect HubSpot"
    /\ cbError' = CallbackCatchError(r)
    /\ cbPc' = "done"
    /\ UNCHANGED << query, exchangeCount >>

\* mutant: no timer is set after a successful exchange
ExchangeSucceededNoTimer ==
    /\ cbStatus' = "success"
    /\ cbMessage' = "HubSpot connected successfully!"
    /\ cbPc' = "done"
    /\ query' = EmptyQuery
    /\ UNCHANGED << cbError, exchangeCount >>

\* processCallback after the exchange succeeded: status, replaceState, setTimeout
ExchangeSucceeded ==
    /\ cbStatus' = "success"
    /\ cbMessage' = "HubSpot connected successfully!"
    /\ cbPc' = "timer"
    /\ query' = EmptyQuery
    /\ UNCHANGED << cbError, exchangeCount >>

\* the exchange request settles with r
ExchangeSettle ==
    /\ page = "callback"
    /\ cbPc = "awaiting"
    /\ \E r \in ExchangeResponses :
        /\ IF r.kind = "ok" THEN ExchangeSucceeded ELSE ExchangeFailed(r)
        /\ lastOp' = [op |-> "exchange", resp |-> r, outcome |-> Null]
        /\ exchanged' = (exchanged \/ r.kind = "ok")
    /\ UNCHANGED << page, storage, authUrl, apiBase, requestUrl, requestParams, selectorVars,
                    hook, inflight, batch, overlapped, returnedIds, mounts >>

\* the 2000 ms timer fires: window.location.href = '/?oauth_success=true'
RedirectTimer ==
    /\ page = "callback"
    /\ cbPc = "timer"
    /\ \E fresh \in IdPool :
        MountMain([EmptyQuery EXCEPT !.oauth_success = "true"], fresh, "redirect")

\* "Back to Home": window.location.href = '/'
BackToHome ==
    /\ page = "callback"
    /\ cbStatus = "error"
    /\ \E fresh \in IdPool : MountMain(EmptyQuery, fresh, "home")

\* "Try Again": window.location.reload()
TryAgain ==
    /\ page = "callback"
    /\ cbStatus = "error"
    /\ MountCallback(query, "reload")

Init ==
    /\ page = "blank"
    /\ query = EmptyQuery
    /\ storage \in {Null} \cup IdPool
    /\ authUrl = Null
    /\ apiBase \in BaseUrls
    /\ requestUrl = Null
    /\ requestParams = NoParams
    /\ sessionUserId = Null
    /\ connectionStatus = "disconnected"
    /\ isLoading = FALSE
    /\ selError = Null
    /\ connectPc = "idle"
    /\ connects = 0
    /\ navs = 0
    /\ listMounted = FALSE
    /\ hook = InitialHook
    /\ inflight = 0
    /\ whook = InitialHook
    /\ cbStatus = "processing"
    /\ cbMessage = "Processing HubSpot connection..."
    /\ cbError = Null
    /\ cbPc = "unmounted"
    /\ exchangeCount = 0
    /\ returnedIds = {}
    /\ exchanged = FALSE
    /\ mounts = 0
    /\ lastOp = NoOp
    /\ batch = {}
    /\ overlapped = FALSE

HookNext == FetchContactsCall \/ FetchContactsSettle

\* the hook of a build that leaves the base URL unset, in a new browser
HookInit == Init /\ storage = Null /\ apiBase = Null

HookSpec == HookInit /\ [][HookNext]_vars

Next ==
    \/ LoadMain
    \/ ReloadMain
    \/ ClickCard
    \/ ClickButton
    \/ ConnectCatch
    \/ LeaveForAuth
    \/ Refetch
    \/ ContactsSettle
    \/ LoadCallback
    \/ ExchangeSettle
    \/ RedirectTimer
    \/ BackToHome
    \/ TryAgain

Spec == Init /\ [][Next]_vars

\* a timer set with setTimeout fires when its document is still shown
LiveSpec == Spec /\ WF_vars(RedirectTimer)

----------------------------------------------------------------------------
(* Properties *)

Settled == lastOp.op = "settle"
Exchanged == lastOp.op = "exchange"
CallbackMounted == lastOp.op = "callback"

\* C1: whenever the Connection Status is connected and a contacts fetch of the
\* mounted contact list settles with HTTP 200 and the embedded error
\* "Token expired, please reconnect.", the Connection Status becomes
\* disconnected (onTokenExpired is invoked).
C1_TokenExpiryDisconnects ==
    (/\ page = "main"
     /\ Settled
     /\ lastOp.resp.kind = "ok"
     /\ lastOp.resp.error = "Token expired, please reconnect.")
    => connectionStatus = "disconnected"

\* C2 as stated: when the exchange fails with a server response whose body has
\* a detail field, the Callback Handler ends in error and its error message
\* equals that detail string exactly.
C2_MessageIsDetail ==
    (Exchanged /\ lastOp.resp.kind = "response" /\ Truthy(lastOp.resp.detail))
    => (cbStatus = "error" /\ cbError = lastOp.resp.detail)

\* C2 amended: a failed exchange ends in error; the message is
\* "OAuth callback failed: " followed by the non-empty server detail, else by
\* the HTTP status text, for a server response; the fixed
\* "Failed to connect to callback server" when no response was received; else
\* "OAuth callback processing failed: " followed by the exception's message.
C2_MessagePrecedence ==
    (Exchanged /\ lastOp.resp.kind # "ok")
    => /\ cbStatus = "error"
       /\ cbError =
            IF lastOp.resp.kind = "response"
            THEN IF lastOp.resp.detail \notin {Null, ""}
                 THEN "OAuth callback failed: " \o lastOp.resp.detail
                 ELSE "OAuth callback failed: " \o lastOp.resp.statusText
            ELSE IF lastOp.resp.kind = "request"
            THEN "Failed to connect to callback server"
            ELSE "OAuth callback processing failed: " \o lastOp.resp.message

C2_Witness ==
    /\ Exchanged
    /\ lastOp.resp.kind = "response"
    /\ lastOp.resp.detail = "bad code"
    /\ lastOp.resp.statusText = "Unauthorized"
    /\ cbStatus = "error"
    /\ cbError = "OAuth callback failed: bad code"

\* C3 as stated: the exchange request is issued iff the query string has no
\* error parameter and a non-empty code; with an error parameter present the
\* page is in error with detail error_description if present, else the raw
\* error code, and no request; with error and code both absent it is in error
\* with the missing-code message and no request.
C3_ExchangeIffNoErrorParam ==
    CallbackMounted =>
        /\ (exchangeCount > 0) <=> (lastOp.resp.error = Null /\ lastOp.resp.code \notin {Null, ""})
        /\ lastOp.resp.error # Null =>
              /\ cbStatus = "error"
              /\ exchangeCount = 0
              /\ cbError = IF lastOp.resp.error_description # Null
                           THEN lastOp.resp.error_description
                           ELSE lastOp.resp.error
        /\ (lastOp.resp.error = Null /\ lastOp.resp.code = Null) =>
              /\ cbStatus = "error"
              /\ exchangeCount = 0
              /\ cbError = "Missing authorization code in callback URL"

\* C3 amended: the exchange request is issued iff the error parameter is
\* absent or empty and the code is non-empty; with a non-empty error the page
\* is in error with detail error_description if non-empty, else the raw error
\* code, and no request; with error absent or empty and code absent or empty
\* it is in error with the missing-code message and no request.
C3_ExchangeIffNoError ==
    CallbackMounted =>
        /\ (exchangeCount > 0) <=>
              (lastOp.resp.error \in {Null, ""} /\ lastOp.resp.code \notin {Null, ""})
        /\ lastOp.resp.error \notin {Null, ""} =>
              /\ cbStatus = "error"
              /\ exchangeCount = 0
              /\ cbError = IF lastOp.resp.error_description \notin {Null, ""}
                           THEN lastOp.resp.error_description
                           ELSE lastOp.resp.error
        /\ (lastOp.resp.error \in {Null, ""} /\ lastOp.resp.code \in {Null, ""}) =>
              /\ cbStatus = "error"
              /\ exchangeCount = 0
              /\ cbError = "Missing authorization code in callback URL"

C3_Witness ==
    /\ CallbackMounted
    /\ lastOp.resp.error = "access_denied"
    /\ lastOp.resp.code = "abc"
    /\ lastOp.resp.error_description = Null
    /\ cbStatus = "error"
    /\ cbError = "access_denied"
    /\ exchangeCount = 0

\* C4: across main-route mounts sharing one localStorage, every initialisation
\* of the session identifier returns the same value; the entry is written only
\* when none exists and is never overwritten or removed afterwards.
C4_SessionIdStable ==
    /\ [](Cardinality(returnedIds) <= 1)
    /\ [](page = "main" => (sessionUserId = storage /\ returnedIds = {storage}))
    /\ [][storage # Null => storage' = storage]_vars

C4_Witness ==
    /\ page = "main"
    /\ mounts >= 2
    /\ returnedIds = {sessionUserId}
    /\ storage = sessionUserId

\* C5: when a fetchContacts call fails with no response received, then after
\* it settles the error is exactly "Unable to connect to server", the contacts
\* list is empty, the call resolved with an empty list and loading is false.
C5_NetworkFailure ==
    (Settled /\ lastOp.resp.kind = "request")
    => /\ hook.error = "Unable to connect to server"
       /\ hook.contacts = <<>>
       /\ lastOp.outcome = [settled |-> "resolved", value |-> <<>>]
       /\ hook.loading = FALSE

C5_Witness ==
    /\ Settled
    /\ lastOp.resp.kind = "request"
    /\ overlapped
    /\ hook.error = "Unable to connect to server"

\* C6: when the contacts call succeeds but the payload carries an error at
\* data.error, the error state is that string, the contacts state is empty
\* (whatever it held, and even if the payload carries contacts), the call
\* resolved with an empty list and loading is false.
C6_EmbeddedError ==
    (Settled /\ lastOp.resp.kind = "ok" /\ lastOp.resp.error \notin {Null, ""})
    => /\ hook.error = lastOp.resp.error
       /\ hook.contacts = <<>>
       /\ lastOp.outcome = [settled |-> "resolved", value |-> <<>>]
       /\ hook.loading = FALSE

C6_Witness ==
    /\ Settled
    /\ lastOp.resp.kind = "ok"
    /\ lastOp.resp.error = "Token expired, please reconnect."
    /\ lastOp.resp.contacts = <<c1>>
    /\ hook.contacts = <<>>
    /\ hook.error = "Token expired, please reconnect."

\* the payload's data.contacts array, the empty list when the field is absent
PayloadContacts == IF lastOp.resp.contacts = NoContacts THEN <<>> ELSE lastOp.resp.contacts

SettledWithContacts ==
    Settled /\ lastOp.resp.kind = "ok" /\ lastOp.resp.error \in {Null, ""}

\* C7 as stated: for every successful contacts response with no embedded
\* error, fetchContacts resolves with the payload's data.contacts (the empty
\* list when absent), sets the contacts state to that list, and leaves the
\* error state null.
C7_SuccessLeavesNoError ==
    SettledWithContacts
    => /\ lastOp.outcome = [settled |-> "resolved", value |-> PayloadContacts]
       /\ hook.contacts = PayloadContacts
       /\ hook.error = Null

\* C7 amended: ... resolves with the payload's data.contacts (the empty list
\* when absent) and sets the contacts state to that list; the error state is
\* null after settlement whenever the call did not overlap another call of
\* the same hook instance.
C7_SuccessSetsContacts ==
    SettledWithContacts
    => /\ lastOp.outcome = [settled |-> "resolved", value |-> PayloadContacts]
       /\ hook.contacts = PayloadContacts
       /\ (~overlapped => hook.error = Null)

C7_Witness ==
    /\ SettledWithContacts
    /\ ~overlapped
    /\ lastOp.resp.contacts = <<c1>>
    /\ Len(lastOp.outcome.value) = 1
    /\ lastOp.outcome.value[1].id = "1"
    /\ hook.contacts = <<c1>>
    /\ hook.error = Null

\* C8: when fetchContacts calls of one hook instance overlap, every one of
\* them resolves, loading is false once all have settled, and the view then
\* displayed is the one that one of the completions alone would have produced.
C8_OverlapEndsInOneCompletion ==
    /\ Settled => lastOp.outcome.settled = "resolved"
    /\ (inflight = 0 /\ overlapped) =>
          /\ hook.loading = FALSE
          /\ View(hook) \in batch

C8_Witness ==
    /\ inflight = 0
    /\ overlapped
    /\ Settled
    /\ Cardinality(batch) = 2
    /\ View(hook).view = "error"
    /\ hook.contacts # <<>>

\* C9: every fetchContacts call sets loading true when it starts and false
\* when it settles, on every outcome path; when calls do not overlap, loading
\* is true exactly while the call is in flight.
C9_LoadingBracketsCall ==
    /\ lastOp.op = "start" => hook.loading = TRUE
    /\ Settled => hook.loading = FALSE
    /\ ~overlapped => (hook.loading <=> inflight > 0)

C9_Witness ==
    /\ Settled
    /\ lastOp.resp.kind = "other"
    /\ ~overlapped
    /\ inflight = 0
    /\ hook.loading = FALSE

\* C10: within one Callback Handler page instance the exchange request is
\* issued at most once, exactly once when the URL has a code and no error,
\* and a failed exchange is not issued again.
C10_ExchangeAtMostOnce ==
    /\ exchangeCount <= 1
    /\ (CallbackMounted /\ lastOp.resp.error = Null /\ lastOp.resp.code \notin {Null, ""})
          => exchangeCount = 1
    /\ Exchanged => (exchangeCount = 1 /\ cbPc \in {"done", "timer"})

C10_Witness ==
    /\ Exchanged
    /\ lastOp.resp.kind = "response"
    /\ cbStatus = "error"
    /\ cbPc = "done"
    /\ exchangeCount = 1

\* C11: the Callback Handler issues the exchange request only for a callback
\* whose state parameter is present and equals the session identifier this
\* browser stored; a callback with a foreign or missing state issues none
\* (and so never gets to status success, which only a settled exchange sets).
C11_ExchangeOnlyForOwnState ==
    (CallbackMounted /\ exchangeCount > 0)
        => (Truthy(lastOp.resp.state) /\ lastOp.resp.state = storage)

\* C12: once the user has triggered the connect action, the Connection Status
\* is never connected in that page instance: the action leaves it connecting
\* (its catch block may then make it error) and starts the navigation away;
\* only a mount of the main route makes the status connected.
C12_NoConnectedAfterConnect ==
    /\ [](connects > 0 => connectionStatus \in {"connecting", "error"})
    /\ [](lastOp.op = "connect" =>
            /\ connectionStatus = "connecting"
            /\ (authUrl # Null \/ connectPc = "catch"))
    /\ [][(connectionStatus' = "connected" /\ connectionStatus # "connected")
            => lastOp'.op = "mount"]_vars

C12_Witness ==
    /\ page = "main"
    /\ lastOp.op = "connect"
    /\ connects = 2
    /\ connectionStatus = "connecting"
    /\ authUrl # Null

\* C13: for every configured base URL the Auth Initiator navigates to exactly
\* base + "/integrations/hubspot/authorize?user_id=" + session identifier, and
\* the exchange and contacts requests go to base + "/integrations/hubspot/callback"
\* and base + "/integrations/hubspot/contacts": the configured base is followed
\* directly by the fixed path, with no extra path segment.
C13_BaseThenFixedPath ==
    apiBase # Null =>
        /\ (lastOp.op = "connect" /\ authUrl # Null) =>
              authUrl = apiBase \o "/integrations/hubspot/authorize?user_id="
                                \o sessionUserId
        /\ (CallbackMounted /\ exchangeCount > 0) =>
              requestUrl = apiBase \o "/integrations/hubspot/callback"
        /\ (page = "main" /\ listMounted) =>
              requestUrl = apiBase \o "/integrations/hubspot/contacts"

\* C14: a mount of the main route with oauth_success=true leaves the Connection
\* Status connected, the selector error null and the query string removed; the
\* URL is inspected once per mount, so a later reload, which finds the indicator
\* stripped, does not make the status connected again.
C14_SuccessIndicatorOnce ==
    /\ []((lastOp.op = "mount" /\ lastOp.resp.oauth_success = "true") =>
            /\ connectionStatus = "connected"
            /\ selError = Null
            /\ query = EmptyQuery)
    /\ [](page = "main" => query.oauth_success # "true")
    /\ [][(lastOp'.op = "mount" /\ lastOp'.outcome = "reload")
            => (lastOp'.resp = query /\ connectionStatus' # "connected")]_vars

C14_Witness ==
    /\ page = "main"
    /\ lastOp.op = "mount"
    /\ lastOp.outcome = "load"
    /\ lastOp.resp.oauth_success = "true"
    /\ connectionStatus = "connected"
    /\ selError = Null
    /\ query = EmptyQuery

\* the text the selector shows for an oauth_error code
C15_Text(code) ==
    IF code = "authorization_denied"
    THEN "You denied authorization to access HubSpot. Please try again if you want to connect."
    ELSE IF code = "callback_failed"
    THEN "OAuth callback processing failed. Please try connecting again."
    ELSE "OAuth authentication failed"

\* C15 as stated: the Connection Status becomes error on exactly two events, a
\* failure of the Auth Initiator while starting navigation, or a mount with an
\* oauth_error query parameter and no oauth_success=true; in the second case the
\* message is the fixed text of the code (generic for any other code), the
\* loading flag is false and the indicator is stripped from the URL.
C15_ErrorOnParam ==
    /\ (page = "main" /\ connectionStatus = "error") =>
          \/ lastOp.op = "catch"
          \/ /\ lastOp.op = "mount"
             /\ lastOp.resp.oauth_error # Null
             /\ lastOp.resp.oauth_success # "true"
    /\ lastOp.op = "catch" => connectionStatus = "error"
    /\ (/\ lastOp.op = "mount"
        /\ lastOp.resp.oauth_error # Null
        /\ lastOp.resp.oauth_success # "true") =>
          /\ connectionStatus = "error"
          /\ selError = C15_Text(lastOp.resp.oauth_error)
          /\ isLoading = FALSE
          /\ query = EmptyQuery

\* C15 amended: as stated, for a mount whose oauth_error parameter is not
\* empty; a mount with an empty oauth_error parameter is no error event.
C15_ErrorOnNonEmptyParam ==
    /\ (page = "main" /\ connectionStatus = "error") =>
          \/ lastOp.op = "catch"
          \/ /\ lastOp.op = "mount"
             /\ lastOp.resp.oauth_error \notin {Null, ""}
             /\ lastOp.resp.oauth_success # "true"
    /\ lastOp.op = "catch" => connectionStatus = "error"
    /\ (/\ lastOp.op = "mount"
        /\ lastOp.resp.oauth_error \notin {Null, ""}
        /\ lastOp.resp.oauth_success # "true") =>
          /\ connectionStatus = "error"
          /\ selError = C15_Text(lastOp.resp.oauth_error)
          /\ isLoading = FALSE
          /\ query = EmptyQuery
    /\ (/\ lastOp.op = "mount"
        /\ lastOp.resp.oauth_error = ""
        /\ lastOp.resp.oauth_success # "true") =>
          /\ connectionStatus = "disconnected"
          /\ selError = Null

C15_Witness ==
    /\ page = "main"
    /\ lastOp.op = "mount"
    /\ lastOp.resp.oauth_error = "callback_failed"
    /\ lastOp.resp.oauth_success = "1"
    /\ connectionStatus = "error"
    /\ selError = "OAuth callback processing failed. Please try connecting again."
    /\ isLoading = FALSE
    /\ query = EmptyQuery

\* s ends with suffix
EndsWith(s, suffix) ==
    /\ Len(s) >= Len(suffix)
    /\ SubSeq(s, Len(s) - Len(suffix) + 1, Len(s)) = suffix

\* the end of the authorization URL for the identifier this browser stored
OwnAuthorizeSuffix == "/integrations/hubspot/authorize?user_id=" \o storage

\* C16 as stated: a connect action on hubspot sets the status to connecting and
\* then triggers exactly one full-page navigation, to the authorization URL
\* whose user_id parameter is this browser's session identifier.
C16_ConnectNavigatesOnce ==
    lastOp.op = "connect" =>
        /\ connectionStatus = "connecting"
        /\ navs = connects
        /\ authUrl # Null
        /\ EndsWith(authUrl, OwnAuthorizeSuffix)

\* C16 amended: a connect action sets the status to connecting first; unless
\* the Auth Initiator throws it then triggers exactly one navigation, to the
\* authorization URL whose user_id parameter is this browser's session
\* identifier; when the Auth Initiator throws, no navigation is triggered and
\* the catch block of the action runs next.
C16_ConnectNavigatesOnceUnlessThrown ==
    lastOp.op = "connect" =>
        /\ connectionStatus = "connecting"
        /\ isLoading = TRUE
        /\ connects > 0
        /\ ~StartAuthThrows(apiBase, sessionUserId) =>
              /\ connectPc = "idle"
              /\ navs = connects
              /\ authUrl # Null
              /\ EndsWith(authUrl, OwnAuthorizeSuffix)
        /\ StartAuthThrows(apiBase, sessionUserId) =>
              /\ connectPc = "catch"
              /\ navs = 0
              /\ authUrl = Null

C16_Witness ==
    /\ page = "main"
    /\ lastOp.op = "connect"
    /\ connectionStatus = "connecting"
    /\ connects = 1
    /\ navs = 1
    /\ storage = "user_1"
    /\ authUrl = "http://localhost:8000/api/integrations/hubspot/authorize?user_id=user_1"

\* a step inside one page instance of the main route
SameMainInstance == page = "main" /\ page' = "main" /\ lastOp'.op # "mount"

C18_SessionExpiredPanelShown ==
    (/\ page = "main"
     /\ listMounted
     /\ Settled
     /\ inflight = 0
     /\ lastOp.resp.kind = "ok"
     /\ lastOp.resp.error = TokenExpiredPhrase)
    => /\ WrapperView(whook.error, hook) = "session_expired"
       /\ WrapperView(whook.error, hook) # "error"

\* a step inside one page instance of the callback route
SameCallbackInstance ==
    page = "callback" /\ page' = "callback" /\ lastOp'.op # "callback"

\* C19: the Callback Handler's status starts at processing; success and error
\* are terminal for the page instance; the error detail is non-null only in
\* status error.
C19_CallbackStatusTerminal ==
    /\ [](cbStatus \in {"processing", "success", "error"})
    /\ [](cbPc \in {"unmounted", "awaiting"} => cbStatus = "processing")
    /\ [][SameCallbackInstance =>
            (cbStatus \in {"success", "error"} => cbStatus' = cbStatus)]_vars
    /\ [](cbError # Null => cbStatus = "error")

C19_Witness ==
    /\ page = "callback"
    /\ Exchanged
    /\ lastOp.resp.kind = "ok"
    /\ cbStatus = "success"
    /\ cbError = Null

\* the exchange of this callback page instance has succeeded
ExchangeOk == Exchanged /\ lastOp.resp.kind = "ok"

\* the document was loaded by the Callback Handler's timer
Redirected == lastOp.op = "mount" /\ lastOp.outcome = "redirect"

\* the user has sent the browser to another document
UserLeft == (lastOp.op = "mount" /\ lastOp.outcome = "load") \/ lastOp.op = "callback"

\* C20 as stated: after a successful exchange the handler has status success
\* and the query string stripped while still on the callback page, and only
\* afterwards navigates to the main route with oauth_success=true; this
\* navigation eventually happens after every successful exchange, and never in
\* a page instance whose exchange failed or was not issued.
C20_RedirectAlwaysFollows ==
    /\ [](ExchangeOk =>
            /\ page = "callback"
            /\ cbStatus = "success"
            /\ query = EmptyQuery
            /\ cbPc = "timer")
    /\ [][Redirected' =>
            /\ page = "callback"
            /\ cbStatus = "success"
            /\ exchangeCount = 1
            /\ lastOp'.resp = [EmptyQuery EXCEPT !.oauth_success = "true"]]_vars
    /\ [](cbStatus = "error" => cbPc # "timer")
    /\ (ExchangeOk ~> Redirected)

\* C20 amended: as stated, but the navigation is certain only as long as the
\* callback document stays shown until the delay has passed: a navigation by
\* the user in between drops the timer.
C20_RedirectFollowsUnlessLeft ==
    /\ [](ExchangeOk =>
            /\ page = "callback"
            /\ cbStatus = "success"
            /\ query = EmptyQuery
            /\ cbPc = "timer")
    /\ [][Redirected' =>
            /\ page = "callback"
            /\ cbStatus = "success"
            /\ exchangeCount = 1
            /\ lastOp'.resp = [EmptyQuery EXCEPT !.oauth_success = "true"]]_vars
    /\ [](cbStatus = "error" => cbPc # "timer")
    /\ (ExchangeOk ~> (Redirected \/ UserLeft))

C20_Witness ==
    /\ page = "main"
    /\ Redirected
    /\ lastOp.resp.oauth_success = "true"
    /\ connectionStatus = "connected"
    /\ cbPc = "unmounted"

\* C21 as stated: when the contacts call fails with a server response, the
\* error message is the body's nested data.error if present, else the body's
\* detail if present, else the HTTP status text; the network-failure string
\* and the exception's own message are used only without a server response.
C21_PrecedenceByPresence ==
    Settled =>
        /\ lastOp.resp.kind = "response" =>
              hook.error =
                 IF lastOp.resp.error # Null THEN lastOp.resp.error
                 ELSE IF lastOp.resp.detail # Null THEN lastOp.resp.detail
                 ELSE lastOp.resp.statusText
        /\ lastOp.resp.kind = "request" => hook.error = "Unable to connect to server"
        /\ lastOp.resp.kind = "other" => hook.error = lastOp.resp.message

\* C21 amended: the precedence is by non-empty value: the nested data.error
\* if it is a non-empty string, else the detail if it is a non-empty string,
\* else the HTTP status text.
C21_PrecedenceByNonEmpty ==
    Settled =>
        /\ lastOp.resp.kind = "response" =>
              hook.error =
                 IF lastOp.resp.error \notin {Null, ""} THEN lastOp.resp.error
                 ELSE IF lastOp.resp.detail \notin {Null, ""} THEN lastOp.resp.detail
                 ELSE lastOp.resp.statusText
        /\ lastOp.resp.kind = "request" => hook.error = "Unable to connect to server"
        /\ lastOp.resp.kind = "other" => hook.error = lastOp.resp.message

C21_Witness ==
    /\ Settled
    /\ lastOp.resp.kind = "response"
    /\ lastOp.resp.error = ""
    /\ lastOp.resp.detail = "Not authenticated"
    /\ lastOp.resp.statusText = "Unauthorized"
    /\ hook.error = "Not authenticated"

\* C22: no asynchronous operation lets a failure escape its component:
\* fetchContacts resolves with a list for every backend outcome; every
\* rejection of handleHubspotCallback ends in Callback Handler status error;
\* every failure of startHubspotAuth is followed by the connect handler's catch
\* block, which leaves Connection Status error and the loading flag false.
C22_FailuresCaught ==
    /\ Settled =>
          /\ lastOp.outcome.settled = "resolved"
          /\ lastOp.outcome.value \in {<<>>, <<c1>>, <<c1, c2>>}
    /\ (Exchanged /\ lastOp.resp.kind # "ok") =>
          /\ cbStatus = "error"
          /\ Truthy(cbError)
          /\ cbPc = "done"
    /\ (lastOp.op = "connect" /\ StartAuthThrows(apiBase, sessionUserId)) =>
          /\ page = "main"
          /\ connectPc = "catch"
    /\ connectPc = "catch" => (page = "main" /\ lastOp.op = "connect")
    /\ lastOp.op = "catch" =>
          /\ connectionStatus = "error"
          /\ isLoading = FALSE
          /\ Truthy(selError)
          /\ connectPc = "idle"

C22_Witness ==
    /\ page = "main"
    /\ lastOp.op = "catch"
    /\ apiBase = InvalidBase
    /\ connectionStatus = "error"
    /\ isLoading = FALSE
    /\ navs = 0

\* C23: each fetchContacts call clears the prior error at its start and issues
\* exactly one request to the contacts endpoint with the hook's user
\* identifier as user_id; a call made while contacts are held issues its
\* request all the same (no cache) and a completion, failed or not, issues no
\* request (no retry), so that n calls make n requests.
C23_OneRequestPerCall ==
    /\ []((page = "main" /\ lastOp.op = "start") =>
            /\ hook.error = Null
            /\ hook.loading = TRUE
            /\ requestUrl = ContactsUrl(apiBase)
            /\ requestParams = [user_id |-> sessionUserId, code |-> Null, state |-> Null])
    /\ []((page = "main" /\ lastOp.op = "mount" /\ listMounted) =>
            /\ inflight = 1
            /\ requestUrl = ContactsUrl(apiBase)
            /\ requestParams = [user_id |-> storage, code |-> Null, state |-> Null])
    /\ [][lastOp'.op = "start" => inflight' = inflight + 1]_vars
    /\ [][lastOp'.op = "settle" => inflight' = inflight - 1]_vars

C23_Witness ==
    /\ page = "main"
    /\ lastOp.op = "start"
    /\ hook.contacts = <<c1>>
    /\ hook.loading = TRUE
    /\ inflight = 1
    /\ requestParams.user_id = "user_2"

\* C24: a connect action (status set to connecting, navigation to the
\* authorization URL started) happens only while the Connection Status is
\* disconnected or error: while it is connecting or connected, no interaction
\* with the integration card or its button starts another navigation or
\* changes the status.
C24_ConnectOnlyWhenIdle ==
    [][(page = "main" /\ lastOp'.op = "connect")
          => connectionStatus \in {"disconnected", "error"}]_vars

\* C25 as stated: in every state of a hook instance in which no request is in
\* flight, a non-null error implies an empty contacts list, for every sequence
\* and interleaving of fetchContacts calls and completions.
C25_ErrorImpliesNoContacts ==
    (inflight = 0 /\ hook.error # Null) => hook.contacts = <<>>

\* C25 amended: in every state of a hook instance in which no request is in
\* flight and the calls made since the instance was last idle did not overlap,
\* a non-null error implies an empty contacts list.
C25_ErrorImpliesNoContactsUnlessOverlap ==
    (inflight = 0 /\ ~overlapped /\ hook.error # Null) => hook.contacts = <<>>

C25_Witness ==
    /\ Settled
    /\ inflight = 0
    /\ ~overlapped
    /\ lastOp.resp.kind = "response"
    /\ hook.error = "Rate limited"
    /\ hook.contacts = <<>>

\* C26 as stated: the loading flag of a hook instance is true whenever at least
\* one of its contacts requests is in flight, also when several fetchContacts
\* calls overlap.
C26_LoadingWhileInFlight ==
    inflight > 0 => hook.loading = TRUE

\* C26 amended: the loading flag of a hook instance is true exactly from the
\* start of a fetchContacts call to the next completion of any call of the
\* instance; so it is true whenever a request is in flight and the calls do
\* not overlap.
C26_LoadingUntilNextCompletion ==
    /\ hook.loading <=> lastOp.op = "start"
    /\ (inflight > 0 /\ ~overlapped) => hook.loading = TRUE

C26_Witness ==
    /\ lastOp.op = "start"
    /\ inflight = 2
    /\ overlapped
    /\ hook.loading = TRUE

\* a reload of the callback page: the route is mounted again with the query
\* string the page shows
CallbackReloaded == lastOp.op = "callback" /\ lastOp.outcome = "reload"

\* C27 as stated: after the exchange has been issued for a callback URL, a
\* reload of the callback page (such as "Try Again" after a failed exchange)
\* never sends the same authorization code to the exchange endpoint again.
C27_CodeSentOnceAcrossLoads ==
    [][(page = "callback" /\ exchangeCount > 0 /\ CallbackReloaded')
          => ~(exchangeCount' > 0 /\ requestParams'.code = requestParams.code)]_vars

\* C27 amended: an authorization code is sent to the exchange endpoint at most
\* once per page load; "Try Again", offered after a failed exchange, reloads
\* the callback page with its query string unchanged and sends the same code
\* and state once more; after a successful exchange the query string has been
\* stripped and no reload is offered.
C27_ReloadResubmitsFailedCode ==
    /\ [](exchangeCount <= 1)
    /\ []((page = "callback" /\ cbStatus = "success") => query = EmptyQuery)
    /\ [][(page = "callback" /\ CallbackReloaded')
            => /\ cbStatus = "error"
               /\ query' = query
               /\ exchangeCount > 0
                  => /\ exchangeCount' = 1
                     /\ requestParams' = requestParams
                     /\ requestUrl' = requestUrl
               /\ exchangeCount = 0 => exchangeCount' = 0]_vars

C27_Witness ==
    /\ CallbackReloaded
    /\ exchangeCount = 1
    /\ cbPc = "awaiting"
    /\ requestParams.code = "abc"

\* C28: whenever a contacts fetch fails, the error state is a non-empty
\* message and the contact list shows the error view, never the "No contacts
\* found" empty view, also when the server response carries no error, no
\* detail and an empty status text.
C28_FailureShowsErrorView ==
    (page = "main" /\ listMounted /\ Settled /\ lastOp.resp.kind # "ok")
    => /\ hook.error \notin {Null, ""}
       /\ View(hook).view = "error"

\* C29: the Connection Status is connected, and the contacts request for the
\* session identifier is issued, only if an exchange request of this browser
\* completed successfully on the callback route before: a load of the main
\* route with any URL and no successful exchange before it never yields
\* connected.
C29_ConnectedOnlyAfterExchange ==
    /\ (page = "main" /\ connectionStatus = "connected") => exchanged
    /\ (page = "main" /\ listMounted) => exchanged

\* C30: in every reachable state of a main-route page instance the selector's
\* error message is non-null exactly when the Connection Status is error, and
\* its isLoading flag is true only while the status is connecting.
C30_ErrorAndLoadingFollowStatus ==
    page = "main"
    => /\ (selError # Null) <=> (connectionStatus = "error")
       /\ isLoading => connectionStatus = "connecting"

C30_Witness ==
    /\ page = "main"
    /\ lastOp.op = "catch"
    /\ connectionStatus = "error"
    /\ selError # Null
    /\ isLoading = FALSE
    /\ connects > 0

====
